---------------------------- MODULE Spec2Model ----------------------------
(***************************************************************************)
(* The Analyst of AffectiveSE/ADTA (src/src/analysis/analyst.py): the      *)
(* streaming statistics and the crossing detection that turns threshold    *)
(* crossings into per-activator timelines of timestamps.                   *)
(*                                                                         *)
(* Numbers.  A reading is a pair <<valence, arousal>> of rationals; a      *)
(* rational is a normalised pair <<numerator, denominator>>.  Means,       *)
(* variances, moving averages and derivatives are rationals and are        *)
(* computed exactly.  A standard deviation is the square root of a         *)
(* rational and a threshold is mean - std * sensitivity, so both are held  *)
(* as a number  base + coef * sqrt(rad)  (a record), optionally under the  *)
(* sigmoid.  Comparisons of a rational with such a number are decided      *)
(* exactly, except for the magnitude of the sigmoid, which is evaluated in *)
(* fixed point with resolution 1/Scale (its sign is exact).                *)
(***************************************************************************)
EXTENDS Integers, Sequences, FiniteSets, TLC

\* ------------------------------------------------------------ bounds
\* Total number of add_inference_result calls explored by Spec.
MaxReads == 3
\* Number of calls of one session explored by SpecSession.
MaxSessionReads == 6
\* Total number of calls explored by SpecInterleaved.
MaxInterleavedReads == 3
\* Timestamp, in seconds, of the last reading of SpecScenario.
ScenarioEnd == 65
\* Number of frames of each of the two sessions explored by SpecPaired.
MaxPairedFrames == 3
\* Number of lines of the first interval kind in the files of SpecLoader.
MaxKindLines == 4

\* ------------------------------------------------------------ constants
\* AnalysisConing.DELAY, seconds
DELAY == 30
\* Resolution of the fixed-point evaluation of the sigmoid.
Scale == 10000
\* Depth of the continued fraction that evaluates tanh.
TanhDepth == 6

\* ------------------------------------------------------------ evaluation
\* The element of a one-element set.  The({F(y) : y \in {v}}) is F(v) with
\* v evaluated once, before F is applied (what an assignment to a local
\* variable does).
The(S) == CHOOSE r \in S : TRUE

\* ------------------------------------------------------------ rationals
Abs(x) == IF x < 0 THEN -x ELSE x

Sign(x) == IF x < 0 THEN -1 ELSE IF x > 0 THEN 1 ELSE 0

RECURSIVE GCD(_, _)
GCD(a, b) == IF b = 0 THEN a ELSE GCD(b, a % b)

\* The rational n/d, normalised: lowest terms, positive denominator.
Frac(n, d) ==
    LET s == IF d < 0 THEN -1 ELSE 1
        g == GCD(Abs(n), Abs(d))
    IN  <<(s * n) \div g, (s * d) \div g>>

Zero == <<0, 1>>

\* The operations cancel common factors before they multiply, so that the
\* intermediate products stay as small as the result allows.
RAdd(x, y) ==
    LET g == GCD(x[2], y[2])
    IN  Frac(x[1] * (y[2] \div g) + y[1] * (x[2] \div g), (x[2] \div g) * y[2])
RSub(x, y) == RAdd(x, <<-y[1], y[2]>>)
RMul(x, y) ==
    LET g1 == GCD(Abs(x[1]), y[2])
        g2 == GCD(Abs(y[1]), x[2])
    IN  IF x[1] = 0 \/ y[1] = 0 THEN Zero
        ELSE <<(x[1] \div g1) * (y[1] \div g2), (x[2] \div g2) * (y[2] \div g1)>>
RDivInt(x, k) ==
    LET g == GCD(Abs(x[1]), k)
    IN  IF x[1] = 0 THEN Zero ELSE <<x[1] \div g, x[2] * (k \div g)>>
RMulInt(x, k) ==
    LET g == GCD(k, x[2])
    IN  IF k = 0 THEN Zero ELSE <<x[1] * (k \div g), x[2] \div g>>
\* sign of x - y
RCmp(x, y) ==
    LET g == GCD(x[2], y[2])
    IN  Sign(x[1] * (y[2] \div g) - y[1] * (x[2] \div g))

RSquare(x) == RMul(x, x)

\* ------------------------------------------------------------ ValenceArousal
\* ValenceArousal(valence, arousal) with elementwise arithmetic.
VA(v, a) == <<Frac(v, 1), Frac(a, 1)>>
VAAdd(x, y) == <<RAdd(x[1], y[1]), RAdd(x[2], y[2])>>
VASub(x, y) == <<RSub(x[1], y[1]), RSub(x[2], y[2])>>
VAMul(x, y) == <<RMul(x[1], y[1]), RMul(x[2], y[2])>>
VAMulInt(x, k) == <<RMulInt(x[1], k), RMulInt(x[2], k)>>
VADivInt(x, k) == <<RDivInt(x[1], k), RDivInt(x[2], k)>>

\* ------------------------------------------------------------ Buffer
\* Buffer.last(n): the final min(n, length) elements.
BufferLast(buf, n) ==
    IF Len(buf) <= n THEN buf ELSE SubSeq(buf, Len(buf) - n + 1, Len(buf))

\* len(buf), of a buffer or of an array
Size(buf) == Cardinality(DOMAIN buf)

\* buf[-k]
Neg(buf, k) == buf[Size(buf) + 1 - k]

\* Buffer.np()[:, c]: one column of the dense array
Column(buf, c) == [i \in DOMAIN buf |-> buf[i][c]]

\* The sum of column c of rows lo..hi, by halves.
RECURSIVE SumColIn(_, _, _, _)
SumColIn(rows, c, lo, hi) ==
    IF lo > hi THEN Zero
    ELSE IF lo = hi THEN rows[lo][c]
    ELSE RAdd(SumColIn(rows, c, lo, (lo + hi) \div 2),
              SumColIn(rows, c, (lo + hi) \div 2 + 1, hi))

\* The sum of column c of the first k rows.
SumCol(rows, c, k) == SumColIn(rows, c, 1, k)

\* The sum of the squared deviations from m of column c of rows lo..hi.
RECURSIVE SumSqColIn(_, _, _, _, _)
SumSqColIn(rows, c, m, lo, hi) ==
    IF lo > hi THEN Zero
    ELSE IF lo = hi THEN RSquare(RSub(rows[lo][c], m))
    ELSE RAdd(SumSqColIn(rows, c, m, lo, (lo + hi) \div 2),
              SumSqColIn(rows, c, m, (lo + hi) \div 2 + 1, hi))

\* The sum of the squared deviations from m of column c of the first k rows.
SumSqCol(rows, c, m, k) == SumSqColIn(rows, c, m, 1, k)

\* numpy's mean and var (population variance, ddof = 0) of one column
MeanCol(rows, c) == RDivInt(SumCol(rows, c, Len(rows)), Len(rows))
VarCol(rows, c) ==
    The({RDivInt(SumSqCol(rows, c, m, Len(rows)), Len(rows)) : m \in {MeanCol(rows, c)}})

\* np.mean(rows, axis=0) and np.var(rows, axis=0) of rows of pairs
MeanAxis0(rows) == <<MeanCol(rows, 1), MeanCol(rows, 2)>>
VarAxis0(rows) == <<VarCol(rows, 1), VarCol(rows, 2)>>

\* ------------------------------------------------------------ numbers with a root
\* The number base + coef * sqrt(rad), under the sigmoid when sig is TRUE.
Num(b, c, r, s) == [base |-> b, coef |-> c, rad |-> r, sig |-> s]
Exact(x) == Num(x, Zero, Zero, FALSE)
IsExact(u) == ~u.sig /\ (u.coef = Zero \/ u.rad = Zero)

\* np.sqrt of a rational
Sqrt(x) == Num(Zero, <<1, 1>>, x, FALSE)
\* number * rational, rational - number (the number not under the sigmoid)
NumMul(u, k) == Num(RMul(u.base, k), RMul(u.coef, k), u.rad, u.sig)
RSubNum(x, u) == Num(RSub(x, u.base), RSub(Zero, u.coef), u.rad, u.sig)

\* sign of d - c * sqrt(r), for rationals d, c and r >= 0
SignRoot(d, c, r) ==
    LET sd == Sign(d[1])
        sc == IF r = Zero THEN 0 ELSE Sign(c[1])
        sq == RCmp(RMul(d, d), RMul(RMul(c, c), r))
    IN  IF sc = 0 THEN sd
        ELSE IF sd >= 0 /\ sc < 0 THEN 1
        ELSE IF sd <= 0 /\ sc > 0 THEN -1
        ELSE IF sd > 0 THEN sq
        ELSE -sq

\* floor of the square root of a natural number
RECURSIVE ISqrtIn(_, _, _)
ISqrtIn(n, lo, hi) ==
    IF lo >= hi THEN lo
    ELSE LET mid == (lo + hi + 1) \div 2
         IN  IF mid * mid <= n THEN ISqrtIn(n, mid, hi) ELSE ISqrtIn(n, lo, mid - 1)
ISqrt(n) == ISqrtIn(n, 0, 46340)

\* <<floor(p * k / q), (p * k) % q>> for naturals p, k and q > 0, by
\* doubling, without forming p * k.
RECURSIVE MulDiv(_, _, _)
MulDiv(p, k, q) ==
    IF k = 0 THEN <<0, 0>>
    ELSE LET h == MulDiv(p, k \div 2, q)
             r2 == 2 * h[2] + (IF k % 2 = 1 THEN p % q ELSE 0)
             q2 == 2 * h[1] + (IF k % 2 = 1 THEN p \div q ELSE 0)
         IN  <<q2 + r2 \div q, r2 % q>>

\* x * Scale, rounded towards zero
Fx(x) == Sign(x[1]) * MulDiv(Abs(x[1]), Scale, x[2])[1]

\* (base + coef * sqrt(rad)) * Scale in fixed point
NumFx(u) ==
    Fx(u.base) + Sign(u.coef[1]) * ((ISqrt(Fx(u.rad) * Scale) * Abs(u.coef[1])) \div u.coef[2])

\* tanh(z) for z >= 0 in fixed point by Lambert's continued fraction
\*   tanh z = z / (1 + z^2 / (3 + z^2 / (5 + ...)))
RECURSIVE TanhDen(_, _)
TanhDen(z2, k) ==
    IF k >= TanhDepth THEN (2 * k + 1) * Scale
    ELSE (2 * k + 1) * Scale + (z2 * Scale) \div TanhDen(z2, k + 1)
TanhFx(z) == (z * Scale) \div TanhDen((z * z) \div Scale, 0)

\* Analyst.sigmoid in fixed point: 2 / (1 + exp(-2.2 x)) - 1 = tanh(1.1 x)
SigmoidFx(y) == Sign(y) * TanhFx((Abs(y) * 11) \div 10)

\* sign of x - u, for a rational x and a number u
CmpNum(x, u) ==
    IF ~u.sig THEN SignRoot(RSub(x, u.base), u.coef, u.rad)
    ELSE LET sy == -SignRoot(RSub(Zero, u.base), u.coef, u.rad)
             sx == Sign(x[1])
         IN  IF sx = 0 THEN -sy
             ELSE IF sy = 0 \/ sx # sy THEN sx
             ELSE Sign(x[1] * Scale - SigmoidFx(NumFx(u)) * x[2])

\* u < v on two numbers (one of them a rational wherever the Analyst compares)
NumLt(u, v) ==
    IF IsExact(u) THEN CmpNum(u.base, v) < 0
    ELSE IF IsExact(v) THEN CmpNum(v.base, u) > 0
    ELSE (IF u.sig THEN SigmoidFx(NumFx(u)) ELSE NumFx(u))
             < (IF v.sig THEN SigmoidFx(NumFx(v)) ELSE NumFx(v))

\* ------------------------------------------------------------ the Analyst
Instances == {"rnn_analyst", "cnn_analyst"}

IntervalKinds ==
    <<"global_deviation", "local_deviation",
      "global_sigmoid_deviation", "local_sigmoid_deviation">>
PointKinds == <<"global_rapid_deprecation", "local_rapid_deprecation">>
Activators == IntervalKinds \o PointKinds
ActivatorSet == {Activators[k] : k \in 1..Len(Activators)}
IntervalSet == {IntervalKinds[k] : k \in 1..Len(IntervalKinds)}
PointSet == {PointKinds[k] : k \in 1..Len(PointKinds)}

\* The constructor arguments App._reset_attributes passes: sensitivity,
\* moving_average_size, derivative_moving_average_size of each Analyst.
Config ==
    [ rnn_analyst |-> [sensitivity |-> <<19, 10>>, moving_average_size |-> 2,
                       derivative_moving_average_size |-> 2],
      cnn_analyst |-> [sensitivity |-> <<1, 1>>, moving_average_size |-> 1,
                       derivative_moving_average_size |-> 1] ]

\* The readings and timestamps the callers pass.
Readings == {VA(-1, 0), VA(0, 1), VA(1, 0)}
Times == {DELAY - 1, DELAY, DELAY + 1}
SessionStart == DELAY - 1

\* analyst[i]: the fields of Analyst i.
\* calls[i]: the <<reading, timestamp>> of every add_inference_result call
\*           made on i, in call order (history).
\* appended_by[i][k]: for each entry of timeline k, the test that appended
\*           it, "open" (crossing from above) or "close" (reversed) (history).
\* raised[i]: an exception left the last add_inference_result call on i.
\* file: the lines of an exported event file as readlines returned them.
\* lines: the list load_predicted_labels iterates over and removes from.
\* position: the index the enumeration of lines has reached.
\* result: the intervals appended so far.
VARIABLES analyst, calls, appended_by, raised, file, lines, position, result
vars == <<analyst, calls, appended_by, raised, file, lines, position, result>>
loader == <<file, lines, position, result>>

\* No event file is being loaded.
NoLoad == file = <<>> /\ lines = <<>> /\ position = 0 /\ result = <<>>

\* The timestamps passed to Analyst i, in call order.
times == [i \in Instances |-> [p \in 1..Len(calls[i]) |-> calls[i][p][2]]]

\* Analyst.__init__
NewAnalyst(c) ==
    [ sensitivity |-> c.sensitivity,
      moving_average_size |-> c.moving_average_size,
      derivative_moving_average_size |-> c.derivative_moving_average_size,
      v |-> <<>>, a |-> <<>>,
      va_buffer |-> <<>>,
      number_of_reads |-> 0,
      intersections |-> [keys |-> <<>>, list |-> [k \in ActivatorSet |-> <<>>]],
      va_moving_average |-> <<>>,
      va_mean_local_buffer |-> <<>>,
      va_std_local_buffer |-> <<>>,
      va_mean_global_buffer |-> <<>>,
      va_variance_global_buffer |-> <<>>,
      va_std_global_buffer |-> <<>>,
      derivative_buffer |-> <<>>,
      derivative_moving_average |-> <<>>,
      local_derivative_mean |-> <<>>,
      local_derivative_std |-> <<>>,
      global_derivative_mean |-> <<>>,
      global_derivative_variance |-> <<>>,
      global_derivative_std |-> <<>> ]

\* Variant of va_moving_average that averages the whole buffer.
va_moving_average_all(s, window_size) ==
    The({MeanAxis0(rows) : rows \in {s.va_buffer}})

\* Analyst.va_moving_average
va_moving_average(s, window_size) ==
    The({MeanAxis0(rows) : rows \in {BufferLast(s.va_buffer, window_size)}})

\* Variant of va_mean that takes the read counter as already incremented.
va_mean_counted(s, mean, va) ==
    IF mean = <<>> THEN va
    ELSE VADivInt(VAAdd(VAMulInt(Neg(mean, 1), s.number_of_reads + 1), va),
                  s.number_of_reads + 2)

\* Analyst.va_mean
va_mean(s, mean, va) ==
    IF mean = <<>> THEN va
    ELSE VADivInt(VAAdd(VAMulInt(Neg(mean, 1), s.number_of_reads), va),
                  s.number_of_reads + 1)

\* Variant of va_variance whose update uses the current mean twice.
va_variance_naive(s, variance, mean, va) ==
    IF Len(mean) < 2 THEN VarAxis0(s.va_buffer)
    ELSE VADivInt(VAAdd(VAMulInt(Neg(variance, 1), s.number_of_reads),
                        VAMul(VASub(va, Neg(mean, 1)), VASub(va, Neg(mean, 1)))),
                  s.number_of_reads + 1)

\* Analyst.va_variance
va_variance(s, variance, mean, va) ==
    IF Len(mean) < 2 THEN VarAxis0(s.va_buffer)
    ELSE VADivInt(VAAdd(VAMulInt(Neg(variance, 1), s.number_of_reads),
                        VAMul(VASub(va, Neg(mean, 1)), VASub(va, Neg(mean, 2)))),
                  s.number_of_reads + 1)

\* Analyst.va_std
va_std(variance) == The({<<Sqrt(x[1]), Sqrt(x[2])>> : x \in {Neg(variance, 1)}})

\* np.std(rows, axis=0)
StdAxis0(rows) == <<Sqrt(VarCol(rows, 1)), Sqrt(VarCol(rows, 2))>>

\* Variant of derivative with the operands of the subtraction exchanged.
derivative_reversed(s) ==
    IF Len(s.va_buffer) < 2 THEN VA(0, 0)
    ELSE VASub(Neg(s.va_buffer, 2), Neg(s.va_buffer, 1))

\* Analyst.derivative
derivative(s) ==
    IF Len(s.va_buffer) < 2 THEN VA(0, 0)
    ELSE VASub(Neg(s.va_buffer, 1), Neg(s.va_buffer, 2))

\* Analyst.derivative_moving_average
derivative_moving_average(s, window_size) ==
    The({MeanAxis0(rows) : rows \in {BufferLast(s.derivative_buffer, window_size)}})

\* Variant of AppendReading without the self.__a.append line.
AppendReadingNoArousal(s0, valence_arousal) ==
    [s0 EXCEPT !.v = Append(@, valence_arousal[1]),
               !.va_buffer = Append(@, valence_arousal)]

\* Analyst.add_inference_result, lines 66-69
AppendReading(s0, valence_arousal) ==
    [s0 EXCEPT !.v = Append(@, valence_arousal[1]),
               !.a = Append(@, valence_arousal[2]),
               !.va_buffer = Append(@, valence_arousal)]

\* line 71
AppendMovingAverage(s0) ==
    The({[s EXCEPT !.va_moving_average =
             Append(@, va_moving_average(s, s.moving_average_size))] : s \in {s0}})

\* lines 74-75
AppendLocal(s0) ==
    The({[s EXCEPT !.va_mean_local_buffer = Append(@, MeanAxis0(s.va_buffer)),
                   !.va_std_local_buffer = Append(@, StdAxis0(s.va_buffer))] : s \in {s0}})

\* line 78
AppendGlobalMean(s0, valence_arousal) ==
    The({[s EXCEPT !.va_mean_global_buffer =
             Append(@, va_mean(s, s.va_mean_global_buffer, valence_arousal))] : s \in {s0}})

\* lines 79-80
AppendGlobalVariance(s0, valence_arousal) ==
    The({[s EXCEPT !.va_variance_global_buffer =
             Append(@, va_variance(s, s.va_variance_global_buffer,
                                   s.va_mean_global_buffer, valence_arousal))] : s \in {s0}})

\* line 81
AppendGlobalStd(s0) ==
    The({[s EXCEPT !.va_std_global_buffer =
             Append(@, va_std(s.va_variance_global_buffer))] : s \in {s0}})

\* line 84
AppendDerivative(s0) ==
    The({[s EXCEPT !.derivative_buffer = Append(@, derivative(s))] : s \in {s0}})

\* line 85
AppendDerivativeMovingAverage(s0) ==
    The({[s EXCEPT !.derivative_moving_average =
             Append(@, derivative_moving_average(s, s.derivative_moving_average_size))]
         : s \in {s0}})

\* lines 88-89
AppendLocalDerivative(s0) ==
    The({[s EXCEPT !.local_derivative_mean = Append(@, MeanAxis0(s.derivative_buffer)),
                   !.local_derivative_std = Append(@, StdAxis0(s.derivative_buffer))]
         : s \in {s0}})

\* line 92
AppendGlobalDerivativeMean(s0) ==
    The({[s EXCEPT !.global_derivative_mean =
             Append(@, va_mean(s, s.global_derivative_mean, derivative(s)))] : s \in {s0}})

\* line 93
AppendGlobalDerivativeVariance(s0) ==
    The({[s EXCEPT !.global_derivative_variance =
             Append(@, va_variance(s, s.global_derivative_variance,
                                   s.global_derivative_mean, derivative(s)))] : s \in {s0}})

\* line 94
AppendGlobalDerivativeStd(s0) ==
    The({[s EXCEPT !.global_derivative_std =
             Append(@, va_std(s.global_derivative_variance))] : s \in {s0}})

\* line 96
CountRead(s0) == [s0 EXCEPT !.number_of_reads = @ + 1]

\* Analyst.add_inference_result up to the call of find_intersections: the
\* statements of lines 66-96 in their order, each on the state the one
\* before left.
Ingest(s0, valence_arousal) ==
    CountRead(
    AppendGlobalDerivativeStd(
    AppendGlobalDerivativeVariance(
    AppendGlobalDerivativeMean(
    AppendLocalDerivative(
    AppendDerivativeMovingAverage(
    AppendDerivative(
    AppendGlobalStd(
    AppendGlobalVariance(
        AppendGlobalMean(
            AppendLocal(AppendMovingAverage(AppendReading(s0, valence_arousal))),
            valence_arousal),
        valence_arousal)))))))))

\* Variant of deviation_threshold that leaves the sensitivity out.
deviation_threshold_unscaled(s, std_buffer) ==
    [i \in DOMAIN std_buffer |->
        <<RSubNum(s.va_mean_local_buffer[i][1], std_buffer[i][1]),
          RSubNum(s.va_mean_local_buffer[i][2], std_buffer[i][2])>>]

\* Analyst.deviation_threshold: local mean - std * sensitivity, elementwise
deviation_threshold(s, std_buffer) ==
    [i \in DOMAIN std_buffer |->
        <<RSubNum(s.va_mean_local_buffer[i][1], NumMul(std_buffer[i][1], s.sensitivity)),
          RSubNum(s.va_mean_local_buffer[i][2], NumMul(std_buffer[i][2], s.sensitivity))>>]

\* Analyst.sigmoid applied to a number
sigmoid(u) == [u EXCEPT !.sig = TRUE]

\* Analyst.sigmoid_threshold
sigmoid_threshold(s, std_buffer) ==
    [i \in DOMAIN std_buffer |->
        <<sigmoid(RSubNum(s.va_mean_local_buffer[i][1], NumMul(std_buffer[i][1], s.sensitivity))),
          sigmoid(RSubNum(s.va_mean_local_buffer[i][2], NumMul(std_buffer[i][2], s.sensitivity)))>>]

\* Analyst.derivative_threshold
derivative_threshold(s, std_buffer) ==
    [i \in DOMAIN std_buffer |->
        <<RSubNum(s.local_derivative_mean[i][1], NumMul(std_buffer[i][1], s.sensitivity)),
          RSubNum(s.local_derivative_mean[i][2], NumMul(std_buffer[i][2], s.sensitivity))>>]

\* Buffer.np()[:, c] of a buffer of readings, as an array of numbers
NpColumn(buf, c) == [i \in DOMAIN buf |-> Exact(buf[i][c])]

\* Variant of is_intersection that looks at the last sample only.
is_intersection_level(values_1, values_2) ==
    IF NumLt(Neg(values_1, 1), Neg(values_2, 1)) THEN "True" ELSE "False"

\* Variant of is_intersection with the comparisons <= and >=.
is_intersection_nonstrict(values_1, values_2) ==
    IF ~NumLt(Neg(values_2, 1), Neg(values_1, 1))
    THEN IF Size(values_1) < 2 \/ Size(values_2) < 2 THEN "False"
         ELSE IF ~NumLt(Neg(values_1, 2), Neg(values_2, 2)) THEN "True"
         ELSE "False"
    ELSE "False"

\* Variant of is_intersection without the try/except: the IndexError of
\* values[-2] on a line of one sample leaves the function.
is_intersection_uncaught(values_1, values_2) ==
    IF NumLt(Neg(values_1, 1), Neg(values_2, 1))
    THEN IF Size(values_1) < 2 \/ Size(values_2) < 2 THEN "IndexError"
         ELSE IF NumLt(Neg(values_2, 2), Neg(values_1, 2)) THEN "True"
         ELSE "False"
    ELSE "False"

\* Analyst.is_intersection: "True", "False", or "IndexError" when the
\* exception leaves the function (it never does: the function catches it).
is_intersection(values_1, values_2) ==
    IF NumLt(Neg(values_1, 1), Neg(values_2, 1))
    THEN IF Size(values_1) < 2 \/ Size(values_2) < 2 THEN "False"
         ELSE IF NumLt(Neg(values_2, 2), Neg(values_1, 2)) THEN "True"
         ELSE "False"
    ELSE "False"

\* len(self._intersections[activator]) on the defaultdict: reading a missing
\* key inserts it.
Touch(d, activator) ==
    IF \E k \in 1..Len(d.keys) : d.keys[k] = activator THEN d
    ELSE [d EXCEPT !.keys = Append(@, activator)]

\* Variant of Gate that ignores check_oddity: every test is evaluated.
GateOpen(length, check_oddity) == TRUE

\* Variant of Gate that also gates the opening test, on even length.
GateBoth(length, check_oddity) ==
    IF check_oddity THEN length % 2 = 1 ELSE length % 2 = 0

\* The gate of add_intersect: whether the crossing test is evaluated.
Gate(length, check_oddity) == ~check_oddity \/ length % 2 = 1

\* Variant of Record that inserts at the front (insert(0, _time)).
RecordFront(timeline, _time) == <<_time>> \o timeline

\* self._intersections[activator].append(_time)
Record(timeline, _time) == Append(timeline, _time)

\* add_intersect of find_intersections, on the detection state
\* [inter: the defaultdict, by: which test appended each entry, raised].
AddIntersect(d, data_line, control_line, activator, check_oddity, _time) ==
    IF d.raised THEN d
    ELSE LET i0 == IF check_oddity THEN Touch(d.inter, activator) ELSE d.inter
             d0 == [d EXCEPT !.inter = i0]
         IN  IF Gate(Len(i0.list[activator]), check_oddity)
             THEN LET r == is_intersection(data_line, control_line)
                  IN  IF r = "IndexError" THEN [d0 EXCEPT !.raised = TRUE]
                      ELSE IF r = "True"
                      THEN [d0 EXCEPT
                              !.inter = [Touch(i0, activator) EXCEPT
                                            !.list[activator] = Record(@, _time)],
                              !.by[activator] =
                                  Append(@, IF check_oddity THEN "close" ELSE "open")]
                      ELSE d0
             ELSE d0

add_intersect(d0, data_line, control_line, activator, check_oddity, _time) ==
    The({AddIntersect(d, data_line, control_line, activator, check_oddity, _time)
         : d \in {d0}})

\* Variants of WarmUp: the delay taken one second short, and the comparison
\* taken as <=.
WarmUpShort(_time) == _time < DELAY - 1
WarmUpInclusive(_time) == _time <= DELAY

\* Whether find_intersections returns at once.
WarmUp(_time) == _time < DELAY

\* The data lines and control lines of find_intersections (valence column).
\* Variant of deviation_line that takes the arousal column.
deviation_line_arousal(s) == NpColumn(s.va_moving_average, 2)

\* deviation_line of find_intersections
deviation_line(s) == NpColumn(s.va_moving_average, 1)
derivative_line(s) == NpColumn(s.derivative_moving_average, 1)
global_v_std(s) == Column(deviation_threshold(s, s.va_std_global_buffer), 1)
local_v_std(s) == Column(deviation_threshold(s, s.va_std_local_buffer), 1)
s_global_v_std(s) == Column(sigmoid_threshold(s, s.va_std_global_buffer), 1)
s_local_v_std(s) == Column(sigmoid_threshold(s, s.va_std_local_buffer), 1)
global_v_dv_std(s) == Column(derivative_threshold(s, s.global_derivative_std), 1)
local_v_dv_std(s) == Column(derivative_threshold(s, s.local_derivative_std), 1)

\* Analyst.find_intersections: the ten add_intersect calls in their order,
\* each on the detection state the one before left.
find_intersections(s, by, _time) ==
    IF WarmUp(_time) THEN [inter |-> s.intersections, by |-> by, raised |-> FALSE]
    ELSE
    add_intersect(
    add_intersect(
    add_intersect(
    add_intersect(
    add_intersect(
    add_intersect(
    add_intersect(
    add_intersect(
    add_intersect(
    add_intersect(
        [inter |-> s.intersections, by |-> by, raised |-> FALSE],
        deviation_line(s), global_v_std(s), "global_deviation", FALSE, _time),
        deviation_line(s), local_v_std(s), "local_deviation", FALSE, _time),
        deviation_line(s), s_global_v_std(s), "global_sigmoid_deviation", FALSE, _time),
        deviation_line(s), s_local_v_std(s), "local_sigmoid_deviation", FALSE, _time),
        derivative_line(s), global_v_dv_std(s), "global_rapid_deprecation", FALSE, _time),
        derivative_line(s), local_v_dv_std(s), "local_rapid_deprecation", FALSE, _time),
        global_v_std(s), deviation_line(s), "global_deviation", TRUE, _time),
        local_v_std(s), deviation_line(s), "local_deviation", TRUE, _time),
        s_global_v_std(s), deviation_line(s), "global_sigmoid_deviation", TRUE, _time),
        s_local_v_std(s), deviation_line(s), "local_sigmoid_deviation", TRUE, _time)

\* Analyst.events: the defaultdict's items in key order, flattened
RECURSIVE EventsOf(_, _)
EventsOf(keys, list) ==
    IF keys = <<>> THEN <<>>
    ELSE [k \in 1..Len(list[keys[1]]) |-> <<list[keys[1]][k], keys[1]>>]
             \o EventsOf(Tail(keys), list)
events(s) == EventsOf(s.intersections.keys, s.intersections.list)

\* Variant of AfterEvents for an accessor that indexes the defaultdict with
\* every activator: the missing keys are inserted.
RECURSIVE TouchAll(_, _)
TouchAll(d, k) ==
    IF k > Len(Activators) THEN d ELSE TouchAll(Touch(d, Activators[k]), k + 1)
AfterEventsTouching(s) == [s EXCEPT !.intersections = TouchAll(@, 1)]

\* What reading Analyst.events leaves of the Analyst.
AfterEvents(s) == s

\* Analyst.valence, Analyst.arousal
valence(s) == s.v
arousal(s) == s.a

\* ------------------------------------------------------------ actions
Init ==
    /\ analyst = [i \in Instances |-> NewAnalyst(Config[i])]
    /\ calls = [i \in Instances |-> <<>>]
    /\ appended_by = [i \in Instances |-> [k \in ActivatorSet |-> <<>>]]
    /\ raised = [i \in Instances |-> FALSE]
    /\ NoLoad

\* Variant of Store for a class-level _intersections: one dictionary for
\* all Analyst objects.
StoreShared(i, s) ==
    [j \in Instances |->
        IF j = i THEN s ELSE [analyst[j] EXCEPT !.intersections = s.intersections]]

\* The attributes of one Analyst object are its own (self.x): writing the
\* fields s of Analyst i leaves every other Analyst as it is.
Store(i, s) == [analyst EXCEPT ![i] = s]

\* Variant of add_inference_result that returns at once during the warm-up,
\* before the reading is ingested.
add_inference_result_gated(i, valence_arousal, _time) ==
    \E s \in {IF WarmUp(_time) THEN analyst[i] ELSE Ingest(analyst[i], valence_arousal)} :
    \E d \in {find_intersections(s, appended_by[i], _time)} :
        /\ analyst' = Store(i, [s EXCEPT !.intersections = d.inter])
        /\ calls' = [calls EXCEPT ![i] = Append(@, <<valence_arousal, _time>>)]
        /\ appended_by' = [appended_by EXCEPT ![i] = d.by]
        /\ raised' = [raised EXCEPT ![i] = d.raised]
        /\ UNCHANGED loader

\* analyst i .add_inference_result(valence_arousal, _time)
add_inference_result(i, valence_arousal, _time) ==
    \E s \in {Ingest(analyst[i], valence_arousal)} :
    \E d \in {find_intersections(s, appended_by[i], _time)} :
        /\ analyst' = Store(i, [s EXCEPT !.intersections = d.inter])
        /\ calls' = [calls EXCEPT ![i] = Append(@, <<valence_arousal, _time>>)]
        /\ appended_by' = [appended_by EXCEPT ![i] = d.by]
        /\ raised' = [raised EXCEPT ![i] = d.raised]
        /\ UNCHANGED loader

\* analyst i .events is read
ReadEvents(i) ==
    /\ analyst' = Store(i, AfterEvents(analyst[i]))
    /\ UNCHANGED <<calls, appended_by, raised>>
    /\ UNCHANGED loader

TotalReads == Len(calls["rnn_analyst"]) + Len(calls["cnn_analyst"])

\* Any caller: any instance, reading and timestamp.
AnyCall ==
    \E i \in Instances, va \in Readings, t \in Times :
        /\ TotalReads < MaxReads
        /\ ~raised[i]
        /\ add_inference_result(i, va, t)

AnyRead == \E i \in Instances : ReadEvents(i)

Next == AnyCall \/ AnyRead

Spec == Init /\ [][Next]_vars

\* One session of one Analyst as App.video_inference runs it: one reading
\* per frame, the frame time advancing by one second per frame; the other
\* Analyst is not fed.
FrameTime(i) == SessionStart + Len(calls[i])

Frame ==
    \E i \in Instances, va \in Readings :
        /\ \A j \in Instances \ {i} : calls[j] = <<>>
        /\ Len(calls[i]) < MaxSessionReads
        /\ ~raised[i]
        /\ add_inference_result(i, va, FrameTime(i))

SessionNext == Frame \/ AnyRead

SpecSession == Init /\ [][SessionNext]_vars

\* Two Analysts fed in any interleaving once the warm-up is over, so that
\* every call runs the detection.
InterleavedCall ==
    \E i \in Instances, va \in Readings, t \in {DELAY, DELAY + 1} :
        /\ TotalReads < MaxInterleavedReads
        /\ ~raised[i]
        /\ add_inference_result(i, va, t)

InterleavedNext == InterleavedCall \/ AnyRead

SpecInterleaved == Init /\ [][InterleavedNext]_vars

\* ------------------------------------------------------------ properties
\* Timeline k of Analyst i.
Timeline(i, k) == analyst[i].intersections.list[k]

\* The data line and the control line find_intersections compares for an
\* activator.
DataLine(s, activator) ==
    IF activator \in PointSet THEN derivative_line(s) ELSE deviation_line(s)
ControlLine(s, activator) ==
    CASE activator = "global_deviation" -> global_v_std(s)
      [] activator = "local_deviation" -> local_v_std(s)
      [] activator = "global_sigmoid_deviation" -> s_global_v_std(s)
      [] activator = "local_sigmoid_deviation" -> s_local_v_std(s)
      [] activator = "global_rapid_deprecation" -> global_v_dv_std(s)
      [] activator = "local_rapid_deprecation" -> local_v_dv_std(s)

\* The data line of activator k crosses its control line from above at the
\* current sample of s; the reversed crossing.
Opening(s, k) == is_intersection(DataLine(s, k), ControlLine(s, k)) = "True"
Closing(s, k) == is_intersection(ControlLine(s, k), DataLine(s, k)) = "True"

\* The step is an add_inference_result call on Analyst i.
Called(i) == Len(calls'[i]) = Len(calls[i]) + 1
\* The timestamp of the last call on Analyst i.
LastTime(i) == calls[i][Len(calls[i])][2]

NonDecreasing(seq) == \A p \in 1..Len(seq) - 1 : seq[p] <= seq[p + 1]

\* ------------------------------------------------------------ the step scenario
\* One Analyst with sensitivity 1.9 and moving-average window 5 is fed one
\* reading per second from second 0 on: valence 0 until StepDown, -0.9
\* until StepUp, 0 again after it.  The two Analysts differ in the window
\* of the derivative moving average only.
StepDown == 40
StepUp == 60
ScenarioConfig ==
    [ rnn_analyst |-> [sensitivity |-> <<19, 10>>, moving_average_size |-> 5,
                       derivative_moving_average_size |-> 5],
      cnn_analyst |-> [sensitivity |-> <<19, 10>>, moving_average_size |-> 5,
                       derivative_moving_average_size |-> 1] ]
ScenarioReading(t) ==
    IF StepDown <= t /\ t < StepUp THEN <<Frac(-9, 10), Zero>> ELSE VA(0, 0)

InitScenario ==
    /\ analyst = [i \in Instances |-> NewAnalyst(ScenarioConfig[i])]
    /\ calls = [i \in Instances |-> <<>>]
    /\ appended_by = [i \in Instances |-> [k \in ActivatorSet |-> <<>>]]
    /\ raised = [i \in Instances |-> FALSE]
    /\ NoLoad

ScenarioFrame ==
    \E i \in Instances :
        /\ \A j \in Instances \ {i} : calls[j] = <<>>
        /\ Len(calls[i]) <= ScenarioEnd
        /\ ~raised[i]
        /\ add_inference_result(i, ScenarioReading(Len(calls[i])), Len(calls[i]))

SpecScenario == InitScenario /\ [][ScenarioFrame]_vars

\* C11 as stated: when the scenario is over, global_deviation holds two
\* entries, an open after the step down and a close after the step up.
C11_CloseAfterReturn ==
    \A i \in Instances :
        Len(calls[i]) = ScenarioEnd + 1
            => /\ Len(Timeline(i, "global_deviation")) = 2
               /\ appended_by[i]["global_deviation"] = <<"open", "close">>
               /\ Timeline(i, "global_deviation")[1] >= StepDown
               /\ Timeline(i, "global_deviation")[2] >= StepUp

\* C11 amended: global_deviation is empty until the open at 42 s, holds
\* that open until the close at 51 s, while -0.9 is still held, and holds
\* exactly these two entries from then on to the end of the scenario.
C11_CloseDuringHold ==
    \A i \in Instances :
        calls[i] # <<>>
            => /\ Timeline(i, "global_deviation")
                    = IF LastTime(i) < StepDown + 2 THEN <<>>
                      ELSE IF LastTime(i) < StepDown + 11 THEN <<StepDown + 2>>
                      ELSE <<StepDown + 2, StepDown + 11>>
               /\ appended_by[i]["global_deviation"]
                    = SubSeq(<<"open", "close">>, 1, Len(Timeline(i, "global_deviation")))

\* C11 case: the scenario is over and global_deviation holds two entries.
C11_Witness ==
    \E i \in Instances :
        /\ Len(calls[i]) = ScenarioEnd + 1
        /\ Len(Timeline(i, "global_deviation")) = 2

\* C1: in a session, every interval-style timeline alternates strictly:
\* the entries at odd positions (counting from one) were appended by the
\* crossing-from-above test, those at even positions by the reversed test.
C1_StrictAlternation ==
    \A i \in Instances, k \in IntervalSet :
        \A p \in 1..Len(appended_by[i][k]) :
            appended_by[i][k][p] = IF p % 2 = 1 THEN "open" ELSE "close"

\* C2: an add_inference_result call whose timestamp is below DELAY leaves
\* every timeline as it was.
C2_WarmUpSuppression ==
    [][\A i \in Instances :
          (Called(i) /\ calls'[i][Len(calls'[i])][2] < DELAY)
              => \A k \in ActivatorSet :
                     analyst'[i].intersections.list[k] = Timeline(i, k)]_vars

\* C2 case: the last call came before DELAY, a crossing from above is
\* present at its sample, and the timeline is empty.
C2_Witness ==
    \E i \in Instances, k \in ActivatorSet :
        /\ Len(calls[i]) >= 2
        /\ LastTime(i) < DELAY
        /\ Opening(analyst[i], k)
        /\ Timeline(i, k) = <<>>

\* C3 as stated: an add_inference_result call whose timestamp is exactly
\* DELAY leaves every timeline as it was.
C3_NothingAtDelay ==
    [][\A i \in Instances :
          (Called(i) /\ calls'[i][Len(calls'[i])][2] = DELAY)
              => \A k \in ActivatorSet :
                     analyst'[i].intersections.list[k] = Timeline(i, k)]_vars

\* C3 amended: an add_inference_result call whose timestamp is exactly DELAY
\* appends that timestamp, once, to the timeline of every activator whose
\* data line crosses its control line from above at the call's sample.
C3_DetectionAtDelay ==
    [][\A i \in Instances :
          (Called(i) /\ calls'[i][Len(calls'[i])][2] = DELAY)
              => \A k \in ActivatorSet :
                     Opening(analyst'[i], k)
                         => analyst'[i].intersections.list[k]
                                = Append(Timeline(i, k), DELAY)]_vars

\* C3 case: the second call on an Analyst came at exactly DELAY and put the
\* first entry on a timeline.
C3_Witness ==
    \E i \in Instances, k \in ActivatorSet :
        /\ Len(calls[i]) = 2
        /\ LastTime(i) = DELAY
        /\ Timeline(i, k) = <<DELAY>>

\* C4: on every interval-style timeline the entries appended by the
\* reversed test sit at even positions (counting from one): the timeline
\* had odd length when each was appended, and the first entry is an open.
C4_CloseParity ==
    \A i \in Instances, k \in IntervalSet :
        /\ Len(appended_by[i][k]) = Len(Timeline(i, k))
        /\ \A p \in 1..Len(appended_by[i][k]) :
               appended_by[i][k][p] = "close" => p % 2 = 0

\* C4 case: after DELAY the control line crosses the data line from above
\* while the timeline is empty (the opening crossing fell before DELAY),
\* and nothing was recorded.
C4_Witness ==
    \E i \in Instances, k \in IntervalSet :
        /\ Len(calls[i]) >= 2
        /\ LastTime(i) >= DELAY
        /\ Closing(analyst[i], k)
        /\ Timeline(i, k) = <<>>

\* C5: an add_inference_result call at or after DELAY appends its
\* timestamp to a point-style timeline exactly when the derivative moving
\* average crosses the derivative threshold from above at the call's
\* sample, whatever the length of the timeline, and every entry of a
\* point-style timeline was appended by that test.
C5_PointKinds ==
    [][\A i \in Instances :
          (Called(i) /\ calls'[i][Len(calls'[i])][2] >= DELAY /\ ~raised'[i])
              => \A k \in PointSet :
                     /\ analyst'[i].intersections.list[k]
                            = IF Opening(analyst'[i], k)
                              THEN Append(Timeline(i, k), calls'[i][Len(calls'[i])][2])
                              ELSE Timeline(i, k)
                     /\ \A p \in 1..Len(appended_by'[i][k]) :
                            appended_by'[i][k][p] = "open"]_vars

\* C5 case: a point-style timeline received an entry while its length was
\* odd.
C5_Witness ==
    \E i \in Instances, k \in PointSet : Len(Timeline(i, k)) >= 2

\* C6 as stated: whatever timestamps the caller passes, every timeline is
\* non-decreasing.
C6_AlwaysNonDecreasing ==
    \A i \in Instances, k \in ActivatorSet : NonDecreasing(Timeline(i, k))

\* C6 amended: every timeline of an Analyst is non-decreasing when the
\* timestamps passed to that Analyst are non-decreasing.
C6_NonDecreasingTimes ==
    \A i \in Instances :
        NonDecreasing(times[i])
            => \A k \in ActivatorSet : NonDecreasing(Timeline(i, k))

\* C6 case: non-decreasing timestamps were passed and a timeline holds two
\* entries.
C6_Witness ==
    \E i \in Instances, k \in ActivatorSet :
        NonDecreasing(times[i]) /\ Len(Timeline(i, k)) >= 2

\* C7: after k calls on an Analyst the valence series, the arousal series
\* and every buffer have length k and the read counter is k.
C7_Lengths ==
    \A i \in Instances :
        LET s == analyst[i]
            k == Len(calls[i])
        IN  /\ Len(valence(s)) = k
            /\ Len(arousal(s)) = k
            /\ s.number_of_reads = k
            /\ LET bufs == <<s.va_buffer, s.va_moving_average,
                             s.va_mean_local_buffer, s.va_std_local_buffer,
                             s.va_mean_global_buffer, s.va_variance_global_buffer,
                             s.va_std_global_buffer, s.derivative_buffer,
                             s.derivative_moving_average,
                             s.local_derivative_mean, s.local_derivative_std,
                             s.global_derivative_mean, s.global_derivative_variance,
                             s.global_derivative_std>>
               IN  \A b \in 1..Len(bufs) : Len(bufs[b]) = k

\* C7 case: an Analyst was called before DELAY and again at or after it.
C7_Witness ==
    \E i \in Instances :
        /\ Len(calls[i]) >= 2
        /\ calls[i][1][2] < DELAY
        /\ LastTime(i) >= DELAY

\* The events of Analyst i of activator k, in the order events returns them.
EventsOfKind(e, k) == SelectSeq(e, LAMBDA x : x[2] = k)
RECURSIVE SumLen(_, _)
SumLen(list, k) ==
    IF k > Len(Activators) THEN 0 ELSE Len(list[Activators[k]]) + SumLen(list, k + 1)
EventsFlatten(i) ==
    LET e == events(analyst[i])
    IN  /\ Len(e) = SumLen(analyst[i].intersections.list, 1)
        /\ \A k \in ActivatorSet :
               EventsOfKind(e, k)
                   = [p \in 1..Len(Timeline(i, k)) |-> <<Timeline(i, k)[p], k>>]

\* C8: events holds one <<timestamp, activator>> pair per timeline entry,
\* the pairs of one activator in the order of its timeline, and reading
\* events leaves the Analyst as it was.
C8_Events ==
    [][/\ \A i \in Instances : EventsFlatten(i) /\ EventsFlatten(i)'
       /\ \A i \in Instances : ReadEvents(i) => analyst' = analyst]_vars

\* C8 case: events holds entries of two activators, two of them of one.
C8_Witness ==
    \E i \in Instances, k, l \in ActivatorSet :
        /\ k # l
        /\ Len(Timeline(i, k)) >= 2
        /\ Len(Timeline(i, l)) >= 1
        /\ Len(events(analyst[i])) >= 3

\* C9: the first call on a fresh Analyst raises nothing and appends
\* nothing, whatever its timestamp.
C9_FirstCall ==
    \A i \in Instances :
        Len(calls[i]) = 1
            => /\ ~raised[i]
               /\ \A k \in ActivatorSet : Timeline(i, k) = <<>>

\* C9 case: the first call came at or after DELAY with the one sample of
\* the data line below the control line.
C9_Witness ==
    \E i \in Instances, k \in ActivatorSet :
        /\ Len(calls[i]) = 1
        /\ LastTime(i) >= DELAY
        /\ NumLt(Neg(DataLine(analyst[i], k), 1), Neg(ControlLine(analyst[i], k), 1))

\* A fresh Analyst of the configuration of i, fed the calls cs from the
\* p-th on, alone.
AloneCall(st, c) ==
    The({The({[a |-> [s EXCEPT !.intersections = d.inter], by |-> d.by] :
                 d \in {find_intersections(s, st.by, c[2])}}) :
            s \in {Ingest(st.a, c[1])}})
RECURSIVE Alone(_, _, _)
Alone(st, cs, p) ==
    IF p > Len(cs) THEN st
    ELSE Alone(The({AloneCall(x, cs[p]) : x \in {st}}), cs, p + 1)
Fresh(i) == [a |-> NewAnalyst(Config[i]), by |-> [k \in ActivatorSet |-> <<>>]]

\* C10: whatever the interleaving of the calls on the two Analysts, the
\* series, buffers and timelines of each are those of a fresh Analyst fed
\* its own calls alone, in the same order.
C10_NoSharedState ==
    \A i \in Instances :
        LET r == Alone(Fresh(i), calls[i], 1)
        IN  r.a = analyst[i] /\ r.by = appended_by[i]

\* C10 case: both Analysts were called, in any of the orders, and one of
\* them holds an event.
C10_Witness ==
    \E i, j \in Instances :
        /\ i # j
        /\ Len(calls[i]) >= 2
        /\ Len(calls[j]) >= 1
        /\ \E k \in ActivatorSet : Timeline(i, k) # <<>>

\* The readings passed to Analyst i, in call order.
readings == [i \in Instances |-> [p \in 1..Len(calls[i]) |-> calls[i][p][1]]]
\* All the readings passed to Analyst i are the same.
ConstantInput(i) == \A p \in 1..Len(calls[i]) : calls[i][p][1] = calls[i][1][1]

\* C12: the first derivative entry is (0, 0) and the n-th is the n-th
\* reading minus the one before it; under a constant input every derivative
\* entry is zero and both rapid_deprecation timelines stay empty.
C12_Derivative ==
    \A i \in Instances :
        /\ \A n \in 1..Len(calls[i]) :
               analyst[i].derivative_buffer[n]
                   = IF n = 1 THEN VA(0, 0)
                     ELSE VASub(readings[i][n], readings[i][n - 1])
        /\ ConstantInput(i)
               => /\ \A n \in 1..Len(calls[i]) :
                         analyst[i].derivative_buffer[n] = VA(0, 0)
                  /\ \A k \in PointSet : Timeline(i, k) = <<>>

\* C12 case: a constant input of at least three readings, the last ones
\* ingested after DELAY.
C12_Witness ==
    \E i \in Instances :
        /\ Len(calls[i]) >= 3
        /\ ConstantInput(i)
        /\ LastTime(i) > DELAY

\* The arithmetic mean of the last min(n, W) of the first n rows.
WindowMean(rows, n, W) ==
    LET lo == IF n > W THEN n - W + 1 ELSE 1
    IN  <<RDivInt(SumColIn(rows, 1, lo, n), n - lo + 1),
          RDivInt(SumColIn(rows, 2, lo, n), n - lo + 1)>>

\* C13: the n-th moving average is the mean of the last min(n, W) of the
\* first n readings (n counted from one), the n-th derivative moving
\* average the mean of the last min(n, W') of the first n derivatives, and
\* no call raises.
C13_MovingAverage ==
    \A i \in Instances :
        /\ ~raised[i]
        /\ \A n \in 1..Len(calls[i]) :
               /\ analyst[i].va_moving_average[n]
                      = WindowMean(readings[i], n, analyst[i].moving_average_size)
               /\ analyst[i].derivative_moving_average[n]
                      = WindowMean(analyst[i].derivative_buffer, n,
                                   analyst[i].derivative_moving_average_size)

\* C13 case: an Analyst with a window of more than one reading holds more
\* readings than the window, and the oldest differs from the later ones.
C13_Witness ==
    \E i \in Instances :
        /\ analyst[i].moving_average_size > 1
        /\ Len(calls[i]) > analyst[i].moving_average_size
        /\ readings[i][1] # readings[i][Len(calls[i])]
        /\ readings[i][1] # readings[i][Len(calls[i]) - 1]

\* The Analyst st after ingesting the readings rs from the p-th on, with no
\* detection run.
RECURSIVE IngestAll(_, _, _)
IngestAll(st, rs, p) ==
    IF p > Len(rs) THEN st
    ELSE IngestAll(The({Ingest(x, rs[p]) : x \in {st}}), rs, p + 1)

\* C14: whatever the timestamps, the series, the buffers and the read
\* counter of an Analyst are those obtained by ingesting its readings with
\* no detection at all; only the timelines depend on the timestamps.
C14_StatisticsIgnoreTime ==
    \A i \in Instances :
        [analyst[i] EXCEPT !.intersections = NewAnalyst(Config[i]).intersections]
            = IngestAll(NewAnalyst(Config[i]), readings[i], 1)

\* C14 case: an Analyst was fed before DELAY and at or after DELAY, and a
\* timeline received an entry.
C14_Witness ==
    \E i \in Instances, k \in ActivatorSet :
        /\ calls[i] # <<>>
        /\ calls[i][1][2] < DELAY
        /\ LastTime(i) >= DELAY
        /\ Timeline(i, k) # <<>>

\* The sign of data - control of activator k at the j-th sample from the
\* last of s: 1 above, 0 equal, -1 below.
Side(s, k, j) == CmpNum(Neg(DataLine(s, k), j).base, Neg(ControlLine(s, k), j))
\* The step appends to timeline k of Analyst i by the crossing-from-above
\* test.
OpenAppended(i, k) ==
    /\ Len(appended_by'[i][k]) > Len(appended_by[i][k])
    /\ appended_by'[i][k][Len(appended_by[i][k]) + 1] = "open"

\* C15: a call at or after DELAY on an Analyst that then holds at least two
\* samples appends by the crossing-from-above test to the timeline of an
\* activator exactly when its data line was strictly above its control
\* line at the previous sample and is strictly below it at the current one.
C15_StrictCrossing ==
    [][\A i \in Instances :
          (Called(i) /\ calls'[i][Len(calls'[i])][2] >= DELAY /\ Len(calls'[i]) >= 2)
              => \A k \in ActivatorSet :
                     OpenAppended(i, k)
                         <=> (Side(analyst'[i], k, 2) > 0 /\ Side(analyst'[i], k, 1) < 0)]_vars

\* C15 case: the data line went from above the control line through exact
\* equality to below it over three samples, the last two at or after
\* DELAY, and the timeline is empty.
C15_Witness ==
    \E i \in Instances, k \in ActivatorSet :
        /\ Len(calls[i]) = 3
        /\ calls[i][2][2] >= DELAY
        /\ calls[i][3][2] >= DELAY
        /\ Side(analyst[i], k, 3) > 0
        /\ Side(analyst[i], k, 2) = 0
        /\ Side(analyst[i], k, 1) < 0
        /\ Timeline(i, k) = <<>>

\* The sum of the first n rows of pairs.
SumRows(rows, n) == <<SumColIn(rows, 1, 1, n), SumColIn(rows, 2, 1, n)>>
\* mean is the incremental mean of the rows x: mean[1] = x[1],
\* mean[n] = (mean[n-1] * (n-1) + x[n]) / n, and n * mean[n] is the sum of
\* the first n rows.
IncrementalMean(mean, x) ==
    \A n \in 1..Len(x) :
        /\ mean[n] = IF n = 1 THEN x[1]
                     ELSE VADivInt(VAAdd(VAMulInt(mean[n - 1], n - 1), x[n]), n)
        /\ VAMulInt(mean[n], n) = SumRows(x, n)

\* C16: the global mean of the readings and the global mean of the
\* derivatives follow the incremental recurrence with the number of
\* readings consumed before as multiplier, so n times the n-th mean is the
\* sum of the first n values, and each equals the local mean at every step.
C16_IncrementalMean ==
    \A i \in Instances :
        /\ IncrementalMean(analyst[i].va_mean_global_buffer, readings[i])
        /\ IncrementalMean(analyst[i].global_derivative_mean, analyst[i].derivative_buffer)
        /\ analyst[i].va_mean_global_buffer = analyst[i].va_mean_local_buffer
        /\ analyst[i].global_derivative_mean = analyst[i].local_derivative_mean

\* C16 case: four readings, not all the same, whose mean differs from the
\* last reading and from the mean of the first three.
C16_Witness ==
    \E i \in Instances :
        /\ Len(calls[i]) >= 4
        /\ Neg(analyst[i].va_mean_global_buffer, 1) # Neg(analyst[i].va_mean_global_buffer, 2)
        /\ Neg(analyst[i].va_mean_global_buffer, 1) # Neg(readings[i], 1)
        /\ Neg(analyst[i].global_derivative_mean, 1) # VA(0, 0)

\* variance starts at 0 and from the second entry on follows
\* variance[n] = (variance[n-1] * (n-1) + (x[n] - mean[n]) * (x[n] - mean[n-1])) / n
\* (n counted from one).
VarianceRecurrence(variance, mean, x) ==
    \A n \in 1..Len(x) :
        variance[n]
            = IF n = 1 THEN VA(0, 0)
              ELSE VADivInt(VAAdd(VAMulInt(variance[n - 1], n - 1),
                                  VAMul(VASub(x[n], mean[n]), VASub(x[n], mean[n - 1]))),
                            n)

\* C17: the global variance of the readings and that of the derivatives
\* are 0 at the first ingestion (the fallback of va_variance) and follow
\* the recurrence from the second ingestion on.
C17_VarianceBootstrap ==
    \A i \in Instances :
        /\ VarianceRecurrence(analyst[i].va_variance_global_buffer,
                              analyst[i].va_mean_global_buffer, readings[i])
        /\ VarianceRecurrence(analyst[i].global_derivative_variance,
                              analyst[i].global_derivative_mean,
                              analyst[i].derivative_buffer)

\* C17 case: at the third ingestion the variance of the readings and the
\* variance of the derivatives are both positive and differ.
C17_Witness ==
    \E i \in Instances :
        /\ Len(calls[i]) >= 3
        /\ analyst[i].va_variance_global_buffer[3][1] # Zero
        /\ analyst[i].global_derivative_variance[3][1] # Zero
        /\ analyst[i].va_variance_global_buffer[3] # analyst[i].global_derivative_variance[3]

\* The step is a call on Analyst i at whose sample the lines of activator k
\* cross, from above or reversed.
CrossingAtCall(i, k) ==
    /\ Called(i)
    /\ \/ Side(analyst'[i], k, 2) > 0 /\ Side(analyst'[i], k, 1) < 0
       \/ Side(analyst'[i], k, 2) < 0 /\ Side(analyst'[i], k, 1) > 0

\* C18: an interval-style timeline of odd length is left as it is by every
\* step other than a call at whose sample its lines cross: no other
\* ingestion, however late, and no read of the events closes the interval.
C18_NoForcedClose ==
    [][\A i \in Instances, k \in IntervalSet :
          (Len(Timeline(i, k)) % 2 = 1 /\ ~CrossingAtCall(i, k))
              => analyst'[i].intersections.list[k] = Timeline(i, k)]_vars

\* C18 case: the last session frame left an interval open that was opened
\* at least three frames before, the data line being below the control
\* line at the last two samples.
C18_Witness ==
    \E i \in Instances, k \in IntervalSet :
        /\ Len(calls[i]) = MaxSessionReads
        /\ Len(Timeline(i, k)) = 1
        /\ Timeline(i, k)[1] + 3 <= LastTime(i)
        /\ Side(analyst[i], k, 1) < 0
        /\ Side(analyst[i], k, 2) < 0

\* C19: one add_inference_result call leaves every timeline as it was or
\* appends the call's timestamp to it, once, so the open and the close test
\* of one kind never both append and a call adds at most one entry per
\* kind; a step that is no call leaves the timelines as they were.
C19_OneAppendPerCall ==
    [][\A i \in Instances :
          /\ \A k \in ActivatorSet :
                IF Called(i)
                THEN \/ analyst'[i].intersections.list[k] = Timeline(i, k)
                     \/ analyst'[i].intersections.list[k]
                            = Append(Timeline(i, k), calls'[i][Len(calls'[i])][2])
                ELSE analyst'[i].intersections.list[k] = Timeline(i, k)
          /\ SumLen(analyst'[i].intersections.list, 1)
                 <= SumLen(analyst[i].intersections.list, 1) + Len(Activators)]_vars

\* C19 case: the second call on an Analyst opened an interval, so the
\* reversed test of the same activator ran on a timeline of odd length in
\* the same call, and appended nothing.
C19_Witness ==
    \E i \in Instances, k \in IntervalSet :
        /\ Len(calls[i]) = 2
        /\ Timeline(i, k) = <<LastTime(i)>>
        /\ appended_by[i][k] = <<"open">>

\* variance[n] is the population variance of the first n rows of x, for
\* every n.
PopulationVariance(variance, x) ==
    /\ Len(variance) = Len(x)
    /\ \A n \in 1..Len(x) : variance[n] = VarAxis0(SubSeq(x, 1, n))

\* C20: at every step the global variance of the readings and of the
\* derivatives is the population variance of the whole history, the global
\* standard deviations and threshold lines are the local ones, and each
\* global timeline is the timeline of its local counterpart.
C20_GlobalEqualsLocal ==
    \A i \in Instances :
        /\ PopulationVariance(analyst[i].va_variance_global_buffer, analyst[i].va_buffer)
        /\ PopulationVariance(analyst[i].global_derivative_variance, analyst[i].derivative_buffer)
        /\ analyst[i].va_std_global_buffer = analyst[i].va_std_local_buffer
        /\ analyst[i].global_derivative_std = analyst[i].local_derivative_std
        /\ global_v_std(analyst[i]) = local_v_std(analyst[i])
        /\ s_global_v_std(analyst[i]) = s_local_v_std(analyst[i])
        /\ global_v_dv_std(analyst[i]) = local_v_dv_std(analyst[i])
        /\ Timeline(i, "global_deviation") = Timeline(i, "local_deviation")
        /\ Timeline(i, "global_sigmoid_deviation") = Timeline(i, "local_sigmoid_deviation")
        /\ Timeline(i, "global_rapid_deprecation") = Timeline(i, "local_rapid_deprecation")

\* C20 case: the variance recurrence ran at least twice on readings that
\* are not all equal, and a global timeline and its local counterpart hold
\* an entry.
C20_Witness ==
    \E i \in Instances :
        /\ Len(analyst[i].va_buffer) >= 3
        /\ Neg(analyst[i].va_variance_global_buffer, 1)[1] # Zero
        /\ Neg(analyst[i].global_derivative_variance, 1)[1] # Zero
        /\ Timeline(i, "global_sigmoid_deviation") # <<>>
        /\ Timeline(i, "local_sigmoid_deviation") # <<>>

\* ------------------------------------------------------------ paired sessions
\* Two sessions of video_inference on Analysts built with the same
\* arguments, kept in the two slots of the state. Every frame reaches the
\* first session and then the second with the same timestamp and the same
\* valence. The first session is the reference, fed the arousal 0
\* throughout; the second is fed any arousal at every frame. Two sessions
\* that each agree with the reference agree with each other.
First == "rnn_analyst"
Second == "cnn_analyst"
Valences == {-1, 0, 1}
Arousals == {-1, 0, 1}

InitPaired ==
    /\ \E i \in Instances : analyst = [j \in Instances |-> NewAnalyst(Config[i])]
    /\ calls = [i \in Instances |-> <<>>]
    /\ appended_by = [i \in Instances |-> [k \in ActivatorSet |-> <<>>]]
    /\ raised = [i \in Instances |-> FALSE]
    /\ NoLoad

FirstFrame ==
    \E v \in Valences :
        /\ Len(calls[First]) = Len(calls[Second])
        /\ Len(calls[First]) < MaxPairedFrames
        /\ ~raised[First]
        /\ add_inference_result(First, VA(v, 0), FrameTime(First))

SecondFrame ==
    \E a \in Arousals :
        /\ Len(calls[First]) = Len(calls[Second]) + 1
        /\ ~raised[Second]
        /\ add_inference_result(Second,
                                <<calls[First][Len(calls[First])][1][1], Frac(a, 1)>>,
                                calls[First][Len(calls[First])][2])

PairedNext == FirstFrame \/ SecondFrame

SpecPaired == InitPaired /\ [][PairedNext]_vars

\* C21: a session fed the timestamps and the valences of the reference
\* session holds the same data and control lines and the same six
\* timelines as the reference, whatever arousal it was fed.
C21_ArousalIgnored ==
    Len(calls[First]) = Len(calls[Second])
        => /\ \A k \in ActivatorSet :
                /\ Timeline(First, k) = Timeline(Second, k)
                /\ DataLine(analyst[First], k) = DataLine(analyst[Second], k)
                /\ ControlLine(analyst[First], k) = ControlLine(analyst[Second], k)
           /\ appended_by[First] = appended_by[Second]
           /\ raised[First] = raised[Second]

\* C21 case: the two sessions were fed the same frames with a different
\* arousal at every frame, the arousal of the second session varying, and
\* a timeline holds an entry.
C21_Witness ==
    /\ Len(calls[First]) = Len(calls[Second])
    /\ Len(calls[First]) >= 3
    /\ \A p \in 1..Len(calls[First]) :
          /\ calls[First][p][1][1] = calls[Second][p][1][1]
          /\ calls[First][p][2] = calls[Second][p][2]
          /\ calls[First][p][1][2] # calls[Second][p][1][2]
    /\ calls[Second][1][1][2] # calls[Second][2][1][2]
    /\ \E k \in ActivatorSet : Timeline(First, k) # <<>>

\* ------------------------------------------------------------ event file
\* visualize_detections.POINT_EVENTS, STATE_EVENTS, POINTS_EVENT_TIME
POINT_EVENTS == {"local_rapid_deprecation", "global_rapid_deprecation"}
STATE_EVENTS ==
    {"global_deviation", "local_deviation",
     "global_sigmoid_deviation", "local_sigmoid_deviation"}
POINTS_EVENT_TIME == 1

\* A timedelta is a number of microseconds; a parsed time is a number of
\* milliseconds, which three decimals express exactly.
MicrosPerSecond == 1000000
MillisPerSecond == 1000

\* The k decimal digits of n, most significant first.
RECURSIVE Digits(_, _)
Digits(n, k) == IF k = 0 THEN <<>> ELSE Append(Digits(n \div 10, k - 1), n % 10)
\* The digits without their trailing zeros, one digit at least.
RECURSIVE StripZeros(_)
StripZeros(ds) ==
    IF Len(ds) > 1 /\ ds[Len(ds)] = 0 THEN StripZeros(SubSeq(ds, 1, Len(ds) - 1)) ELSE ds
\* str(_time.total_seconds()).split('.'): the integer part and the decimals
\* of the shortest representation of the float, for a time of 0.0001 s or
\* more, which str writes without an exponent.
total_seconds_split(_time) ==
    <<_time \div MicrosPerSecond, StripZeros(Digits(_time % MicrosPerSecond, 6))>>
\* boris_time: the integer part, a dot, the first three decimals at most
boris_time(_time) ==
    LET split == total_seconds_split(_time)
    IN  <<split[1], SubSeq(split[2], 1, IF Len(split[2]) < 3 THEN Len(split[2]) ELSE 3)>>

\* App.events_as_boris_format: one text line per event, time and activator
\* name; the other fields are the same in every line.
events_as_boris_format(intersections) ==
    [p \in 1..Len(intersections) |->
        [time |-> boris_time(intersections[p][1]), label |-> intersections[p][2]]]

\* f.readlines() of the written text: the lines were joined by a newline,
\* so every line but the last ends with one.
readlines(text) ==
    [p \in 1..Len(text) |-> [time |-> text[p].time, label |-> text[p].label,
                             newline |-> p < Len(text)]]

\* float(s) of a boris_time, in milliseconds
RECURSIVE DigitsValue(_)
DigitsValue(ds) ==
    IF ds = <<>> THEN 0 ELSE 10 * DigitsValue(SubSeq(ds, 1, Len(ds) - 1)) + ds[Len(ds)]
RECURSIVE Pow10(_)
Pow10(k) == IF k = 0 THEN 1 ELSE 10 * Pow10(k - 1)
float(t) == t[1] * MillisPerSecond + DigitsValue(t[2]) * Pow10(3 - Len(t[2]))

\* load_predicted_labels.convert_line
convert_line(_line) == <<float(_line.time), _line.label>>

\* Variant of Remove that leaves the list as it is.
RemoveNothing(list, x) == list

\* list.remove(x): the list without its first element equal to x
Remove(list, x) ==
    LET first == CHOOSE q \in 1..Len(list) :
                     list[q] = x /\ \A r \in 1..(q - 1) : list[r] # x
    IN  SubSeq(list, 1, first - 1) \o SubSeq(list, first + 1, Len(list))

\* The index of the first line after index i of list that carries the
\* label, 0 when there is none: the inner loop over lines[i + 1:].
Line2(list, i, label) ==
    IF \E q \in (i + 1)..Len(list) : convert_line(list[q])[2] = label
    THEN CHOOSE q \in (i + 1)..Len(list) :
             /\ convert_line(list[q])[2] = label
             /\ \A r \in (i + 1)..(q - 1) : convert_line(list[r])[2] # label
    ELSE 0

\* The event files: the export of the events of a dictionary of timelines,
\* its keys in an insertion order, each key with its timeline.
FileTimes == {30 * MicrosPerSecond, 30 * MicrosPerSecond + 400,
              31 * MicrosPerSecond + 500000}
OtherTimes == {30 * MicrosPerSecond, 31 * MicrosPerSecond + 500000}
KeyOrders ==
    { <<"global_deviation", "global_rapid_deprecation", "local_deviation">>,
      <<"global_rapid_deprecation", "local_deviation", "global_deviation">> }
SeqsUpTo(S, n) == UNION {[1..k -> S] : k \in 0..n}

InitLoader ==
    /\ analyst = [i \in Instances |-> NewAnalyst(Config[i])]
    /\ calls = [i \in Instances |-> <<>>]
    /\ appended_by = [i \in Instances |-> [k \in ActivatorSet |-> <<>>]]
    /\ raised = [i \in Instances |-> FALSE]
    /\ \E keys \in KeyOrders,
          g \in SeqsUpTo(FileTimes, MaxKindLines),
          l \in SeqsUpTo(OtherTimes, MaxKindLines \div 2),
          r \in SeqsUpTo(OtherTimes, 1) :
          file = readlines(events_as_boris_format(EventsOf(keys,
                     [k \in ActivatorSet |->
                         CASE k = "global_deviation" -> g
                           [] k = "local_deviation" -> l
                           [] k = "global_rapid_deprecation" -> r
                           [] OTHER -> <<>>])))
    /\ lines = file
    /\ position = 0
    /\ result = <<>>

\* One pass of the loop of load_predicted_labels over the lines of a file:
\* the line at the index of the enumeration is converted; a point line
\* appends its interval; a state line appends the interval to the first
\* later line of its label and removes a line equal to that one.
LoadLine ==
    /\ position < Len(lines)
    /\ \E c1 \in {convert_line(lines[position + 1])} :
       \E j \in {Line2(lines, position + 1, c1[2])} :
          /\ result' =
                IF c1[2] \in POINT_EVENTS
                THEN Append(result, <<c1[2], c1[1], c1[1] + POINTS_EVENT_TIME * MillisPerSecond>>)
                ELSE IF c1[2] \in STATE_EVENTS /\ j # 0
                THEN Append(result, <<c1[2], c1[1], convert_line(lines[j])[1]>>)
                ELSE result
          /\ lines' =
                IF c1[2] \in STATE_EVENTS /\ j # 0 THEN Remove(lines, lines[j]) ELSE lines
    /\ position' = position + 1
    /\ UNCHANGED <<analyst, calls, appended_by, raised, file>>

SpecLoader == InitLoader /\ [][LoadLine]_vars

\* The loop over the lines has ended.
Loaded == file # <<>> /\ position >= Len(lines)

\* The lines of the file that carry the label of line p and come before it;
\* the first line after p with its label, 0 when there is none.
SameBefore(p) == {q \in 1..(p - 1) : file[q].label = file[p].label}
NextSame(p) ==
    IF \E q \in (p + 1)..Len(file) : file[q].label = file[p].label
    THEN CHOOSE q \in (p + 1)..Len(file) :
             /\ file[q].label = file[p].label
             /\ \A r \in (p + 1)..(q - 1) : file[r].label # file[p].label
    ELSE 0
\* The intervals of the lines p.. of the file, in file order: one per point
\* line, one per state line that has an even number of lines of its label
\* before it and a line of its label after it.
RECURSIVE Intervals(_)
Intervals(p) ==
    IF p > Len(file) THEN <<>>
    ELSE (IF file[p].label \in POINT_EVENTS
          THEN << <<file[p].label, float(file[p].time),
                    float(file[p].time) + POINTS_EVENT_TIME * MillisPerSecond>> >>
          ELSE IF Cardinality(SameBefore(p)) % 2 = 0 /\ NextSame(p) # 0
          THEN << <<file[p].label, float(file[p].time), float(file[NextSame(p)].time)>> >>
          ELSE <<>>)
         \o Intervals(p + 1)

\* C22: when load_predicted_labels has gone through an exported file, the
\* result holds, in file order, the interval (label, t, t + 1) of every
\* point line and, for every state label, the intervals of its lines taken
\* two by two, (t0, t1), (t2, t3), ...; a line left without a partner gives
\* no interval.
C22_Intervals == Loaded => result = Intervals(1)

\* C22 case: a loaded file with three lines of one state label, the first
\* two the same text, so that one interval pairs them and the third line is
\* left alone, a point line, and two lines of another state label.
C22_Witness ==
    /\ Loaded
    /\ \E p \in 1..(Len(file) - 2) :
          /\ file[p].label = "global_deviation"
          /\ file[p] = file[p + 1]
          /\ file[p + 2].label = "global_deviation"
          /\ SameBefore(p) = {}
          /\ NextSame(p + 2) = 0
    /\ \E p \in 1..Len(file) : file[p].label \in POINT_EVENTS
    /\ Cardinality({p \in 1..Len(file) : file[p].label = "local_deviation"}) = 2
    /\ Len(result) = 3
=============================================================================
